---- MODULE Spec2Model ----
(***************************************************************************)
(* The memory-mem0 plugin (src/index.ts): a Mem0Client with its one-shot   *)
(* health flag and its four operations, the three tool handlers and the    *)
(* two lifecycle hooks that drive it.  Every await of the source is a step *)
(* boundary: an invocation is a record in the bag calls and advances from  *)
(* await to await, while the server answers each outstanding request with  *)
(* a transport error, a non-2xx status, or a 2xx status and a body.        *)
(*                                                                         *)
(* JavaScript values are tagged records [t, v]; strings are tuples of      *)
(* characters; scores and thresholds are fixed-point numbers in hundredths *)
(* (0.87 is 87), which is exact for toFixed(2) and for >=.                 *)
(***************************************************************************)
EXTENDS Integers, Sequences, FiniteSets, Bags, TLC

\* Bounds of the model.
MaxCalls == 3
MaxMsgs == 2

\* Program constants.
MinCaptureLen == 50
DefaultRecallLimit == 5
DefaultRecallThreshold == 40


----------------------------------------------------------------------------
\* JavaScript values.

Undefined == [t |-> "undefined"]
Null == [t |-> "null"]
Pending == [t |-> "pending"]
Unparseable == [t |-> "unparseable"]
Bool(b) == [t |-> "boolean", v |-> b]
Num(n) == [t |-> "number", v |-> n]
Str(s) == [t |-> "string", v |-> s]
Arr(a) == [t |-> "array", v |-> a]
Obj(r) == [t |-> "object", v |-> r]
EmptyObj == Obj([f \in {} |-> Undefined])

IsNullish(j) == j.t \in {"undefined", "null"}

Truthy(j) ==
    CASE j.t \in {"undefined", "null"} -> FALSE
      [] j.t = "boolean" -> j.v
      [] j.t = "number" -> j.v # 0
      [] j.t = "string" -> j.v # <<>>
      [] OTHER -> TRUE

\* a || b
Or(a, b) == IF Truthy(a) THEN a ELSE b

\* j.f for a j that is neither null nor undefined
Get(j, f) == IF j.t = "object" /\ f \in DOMAIN j.v THEN j.v[f] ELSE Undefined

\* JSON.stringify of an object literal drops the keys whose value is undefined
JSONStringify(r) ==
    Obj([f \in {g \in DOMAIN r : r[g] # Undefined} |-> r[f]])

----------------------------------------------------------------------------
\* Strings.

DefaultBaseUrl ==
    <<"h", "t", "t", "p", ":", "/", "/", "1", "2", "7", ".", "0", ".", "0",
      ".", "1", ":", "8", "4", "2", "0">>

DefaultUserId ==
    <<"o", "p", "e", "n", "c", "l", "a", "w">>

Marker ==
    <<"<", "r", "e", "l", "e", "v", "a", "n", "t", "-", "m", "e", "m", "o",
      "r", "i", "e", "s", ">">>

RecallHeader ==
    <<"R", "e", "l", "e", "v", "a", "n", "t", " ", "f", "a", "c", "t", "s",
      " ", "f", "r", "o", "m", " ", "l", "o", "n", "g", "-", "t", "e", "r",
      "m", " ", "m", "e", "m", "o", "r", "y", ":">>

CloseTag ==
    <<"<", "/", "r", "e", "l", "e", "v", "a", "n", "t", "-", "m", "e", "m",
      "o", "r", "i", "e", "s", ">">>

TxtUndefined ==
    <<"u", "n", "d", "e", "f", "i", "n", "e", "d">>

TxtNull ==
    <<"n", "u", "l", "l">>

TxtNoRelevant ==
    <<"N", "o", " ", "r", "e", "l", "e", "v", "a", "n", "t", " ", "m", "e",
      "m", "o", "r", "i", "e", "s", " ", "f", "o", "u", "n", "d", " ", "f",
      "o", "r", ":", " ", "\"">>

TxtFound ==
    <<"F", "o", "u", "n", "d", " ">>

TxtRelevantMemories ==
    <<" ", "r", "e", "l", "e", "v", "a", "n", "t", " ", "m", "e", "m", "o",
      "r", "i", "e", "s", ":", "\n", "\n">>

TxtRelevance ==
    <<" ", "(", "r", "e", "l", "e", "v", "a", "n", "c", "e", ":", " ">>

TxtScore ==
    <<" ", "[", "s", "c", "o", "r", "e", ":", " ">>

TxtFailedStore ==
    <<"F", "a", "i", "l", "e", "d", " ", "t", "o", " ", "s", "t", "o", "r",
      "e", " ", "m", "e", "m", "o", "r", "y", ".">>

TxtStored ==
    <<"S", "t", "o", "r", "e", "d", " ", "i", "n", " ", "m", "e", "m", "o",
      "r", "y", ":", " ">>

TxtDeleted ==
    <<"D", "e", "l", "e", "t", "e", "d", " ", "m", "e", "m", "o", "r", "y",
      ":", " ">>

TxtFailedDelete ==
    <<"F", "a", "i", "l", "e", "d", " ", "t", "o", " ", "d", "e", "l", "e",
      "t", "e", " ", "m", "e", "m", "o", "r", "y", ":", " ">>

TxtText ==
    <<"t", "e", "x", "t">>

RoleUser ==
    <<"u", "s", "e", "r">>

RoleAssistant ==
    <<"a", "s", "s", "i", "s", "t", "a", "n", "t">>

RoleSystem ==
    <<"s", "y", "s", "t", "e", "m">>

TxtRemember ==
    <<"R", "e", "m", "e", "m", "b", "e", "r", ":", " ", "t", "h", "e", " ",
      "b", "u", "i", "l", "d", " ", "u", "s", "e", "s", " ", "a", " ", "m",
      "o", "n", "o", "r", "e", "p", "o">>

Digits == <<"0", "1", "2", "3", "4", "5", "6", "7", "8", "9">>
Digit(d) == Digits[d + 1]

RECURSIVE ToDecimal(_)
ToDecimal(n) ==
    IF n < 10 THEN <<Digit(n)>> ELSE ToDecimal(n \div 10) \o <<Digit(n % 10)>>

\* Number.prototype.toFixed(2) of a number held in hundredths
toFixed2(h) ==
    ToDecimal(h \div 100) \o <<".", Digit((h \div 10) % 10), Digit(h % 10)>>

\* `${j}` in a template literal
ToStr(j) ==
    CASE j.t = "string" -> j.v
      [] j.t = "number" -> ToDecimal(j.v)
      [] j.t = "null" -> TxtNull
      [] OTHER -> TxtUndefined

WhiteSpace == {" ", "\n", "\t"}

RECURSIVE TrimStart(_)
TrimStart(s) ==
    IF s # <<>> /\ Head(s) \in WhiteSpace THEN TrimStart(Tail(s)) ELSE s

RECURSIVE TrimEnd(_)
TrimEnd(s) ==
    IF s # <<>> /\ s[Len(s)] \in WhiteSpace
    THEN TrimEnd(SubSeq(s, 1, Len(s) - 1))
    ELSE s

\* String.prototype.trim
trim(s) == TrimEnd(TrimStart(s))

\* String.prototype.includes
includes(s, sub) ==
    \E i \in 1..(Len(s) - Len(sub) + 1) : SubSeq(s, i, i + Len(sub) - 1) = sub

\* Array.prototype.join over an array of strings
RECURSIVE join(_, _)
join(a, sep) ==
    IF a = <<>> THEN <<>>
    ELSE IF Len(a) = 1 THEN a[1]
    ELSE a[1] \o sep \o join(Tail(a), sep)

RECURSIVE Rep(_, _)
Rep(ch, n) == IF n = 0 THEN <<>> ELSE <<ch>> \o Rep(ch, n - 1)

----------------------------------------------------------------------------
\* Configuration.

\* configSchema.parse
parse(value) ==
    LET v == Or(value, EmptyObj) IN
    [ baseUrl |-> Or(Get(v, "baseUrl"), Str(DefaultBaseUrl)),
      userId |-> Or(Get(v, "userId"), Str(DefaultUserId)),
      autoCapture |-> Get(v, "autoCapture") # Bool(FALSE),
      autoRecall |-> Get(v, "autoRecall") # Bool(FALSE),
      recallLimit |-> Or(Get(v, "recallLimit"), Num(DefaultRecallLimit)),
      recallThreshold |->
          Or(Get(v, "recallThreshold"), Num(DefaultRecallThreshold)) ]

\* The api.pluginConfig objects the host hands to register()
PluginConfigs ==
    { Undefined,
      Obj([ userId |-> Str(<<"u", "1">>), autoCapture |-> Bool(FALSE),
            recallLimit |-> Num(3), recallThreshold |-> Num(0) ]),
      Obj([ userId |-> Str(<<>>), autoRecall |-> Bool(FALSE),
            recallLimit |-> Num(0), recallThreshold |-> Num(50) ]) }

----------------------------------------------------------------------------
\* Completions: how a piece of code ends, by returning a value or by throwing.

Return(v) == [raised |-> FALSE, val |-> v]
Throw == [raised |-> TRUE, val |-> Undefined]
NotYet == Return(Pending)

\* try { comp } catch (error) { log; return v }
Catch(comp, v) == IF comp.raised THEN Return(v) ELSE comp

----------------------------------------------------------------------------
\* Mem0Client, as functions of the server's behaviour.
\* outcome: "error" (fetch rejects: unreachable, timeout), "status" (non-2xx),
\* "ok" (2xx, and body is what response.json() yields, or Unparseable).

Outcomes == {"error", "status", "ok"}

\* the try block of ensureHealthy
ensureHealthyTry(outcome, body) ==
    IF outcome = "error" THEN Throw
    ELSE IF outcome = "status" THEN Return(Undefined)
    ELSE IF body = Unparseable THEN Throw
    ELSE IF IsNullish(body) THEN Throw
    ELSE Return(Undefined)

\* this.healthChecked after the probe was answered
healthCheckedAfter(flag, outcome, body) ==
    IF ensureHealthyTry(outcome, body).raised THEN flag ELSE TRUE

\* Faulty variants (xNoCatch): the operation without its catch block.
ensureHealthyNoCatch(outcome, body) == ensureHealthyTry(outcome, body)

ensureHealthy(outcome, body) == Catch(ensureHealthyTry(outcome, body), Undefined)

searchTry(outcome, body) ==
    IF outcome # "ok" THEN Throw
    ELSE IF body = Unparseable THEN Throw
    ELSE IF IsNullish(body) THEN Throw
    ELSE Return(Or(Get(body, "memories"), Arr(<<>>)))

searchNoCatch(outcome, body) == searchTry(outcome, body)

search(outcome, body) == Catch(searchTry(outcome, body), Arr(<<>>))

addTry(outcome, body) ==
    IF outcome # "ok" THEN Throw
    ELSE IF body = Unparseable THEN Throw
    ELSE Return(body)

addNoCatch(outcome, body) == addTry(outcome, body)

add(outcome, body) == Catch(addTry(outcome, body), Null)

list(outcome, body) == Catch(searchTry(outcome, body), Arr(<<>>))

deleteTry(outcome) == IF outcome # "ok" THEN Throw ELSE Return(Bool(TRUE))

delete(outcome) == Catch(deleteTry(outcome), Bool(FALSE))

ClientOps == {"search", "add", "list", "delete"}

clientReturn(o, outcome, body) ==
    CASE o = "search" -> search(outcome, body)
      [] o = "add" -> add(outcome, body)
      [] o = "list" -> list(outcome, body)
      [] o = "delete" -> delete(outcome)

\* The HTTP request each operation issues.
HealthRequest ==
    [method |-> "GET", path |-> "/health", params |-> EmptyObj,
     body |-> Undefined]

request(o, a, cfg) ==
    CASE o = "search" ->
           [method |-> "GET", path |-> "/memories/search",
            params |-> Obj([ query |-> Str(ToStr(a.query)),
                             user_id |-> Str(ToStr(cfg.userId)),
                             limit |-> Str(ToStr(Or(a.limit, cfg.recallLimit))) ]),
            body |-> Undefined]
      [] o = "add" ->
           [method |-> "POST", path |-> "/memories", params |-> EmptyObj,
            body |-> JSONStringify(
                [ content |-> a.content,
                  user_id |-> cfg.userId,
                  metadata |-> IF Truthy(a.agentId)
                               THEN Obj([agent_id |-> a.agentId])
                               ELSE Undefined ])]
      [] o = "list" ->
           [method |-> "GET", path |-> "/memories",
            params |-> Obj([user_id |-> Str(ToStr(cfg.userId))]),
            body |-> Undefined]
      [] o = "delete" ->
           [method |-> "DELETE", path |-> "/memories/:id",
            params |-> Obj([id |-> Str(ToStr(a.id))]),
            body |-> Undefined]

----------------------------------------------------------------------------
\* What the server may answer.

HealthBodies == {Unparseable, Null, Obj([status |-> Str(<<"o", "k">>)])}

Fact(id, text, score) ==
    Obj([id |-> Str(<<id>>), memory |-> Str(text), score |-> score])
M87 == Fact("a", <<"f", "a", "c", "t", " ", "A">>, Num(87))
M40 == Fact("b", <<"f", "a", "c", "t", " ", "B">>, Num(40))
M20 == Fact("c", <<"f", "a", "c", "t", " ", "C">>, Num(20))
MNoScore ==
    Obj([id |-> Str(<<"d">>), memory |-> Str(<<"f", "a", "c", "t", " ", "D">>)])

SearchBodies ==
    { Unparseable, Null, EmptyObj,
      Obj([memories |-> Arr(<<>>)]),
      Obj([memories |-> Arr(<<M87, M20>>)]),
      Obj([memories |-> Arr(<<MNoScore, M40>>)]),
      Obj([memories |-> Str(<<"x">>)]),
      Obj([memories |-> Arr(<<Null>>)]) }

Stored(text) ==
    Obj([id |-> Str(<<"n">>), memory |-> Str(text), event |-> Str(<<"A", "D", "D">>)])
R1 == Stored(<<"b", "u", "i", "l", "d">>)
R2 == Stored(<<"r", "e", "p", "o">>)

AddBodies ==
    { Unparseable, Null,
      Obj([success |-> Bool(FALSE)]),
      Obj([success |-> Bool(TRUE)]),
      Obj([success |-> Bool(TRUE), result |-> Obj([results |-> Arr(<<>>)])]),
      Obj([success |-> Bool(TRUE), result |-> Obj([results |-> Arr(<<R1>>)])]),
      Obj([success |-> Bool(TRUE), result |-> Obj([results |-> Arr(<<R1, R2>>)])]) }

\* The bodies tried for a direct client call are one that cannot be parsed and
\* one well-formed; the handlers and hooks are tried on all of them.
Bodies(k, o) ==
    CASE o = "add" ->
           IF k = "add"
           THEN {Unparseable,
                 Obj([success |-> Bool(TRUE),
                      result |-> Obj([results |-> Arr(<<R1>>)])])}
           ELSE AddBodies
      [] o = "search" ->
           IF k = "search"
           THEN {Unparseable, Obj([memories |-> Arr(<<M87, M20>>)])}
           ELSE SearchBodies
      [] o = "list" -> {Unparseable, Obj([memories |-> Arr(<<M87, M20>>)])}
      [] OTHER -> {Undefined}

----------------------------------------------------------------------------
\* State.

VARIABLES
    pluginConfig,   \* api.pluginConfig, as the host gave it
    config,         \* parse(pluginConfig)
    healthChecked,  \* Mem0Client.healthChecked
    calls           \* the invocations in progress or ended: a bag of records

vars == <<pluginConfig, config, healthChecked, calls>>

\* An invocation, as it starts:
\*   kind      what was invoked: a client operation, a tool, a hook
\*   params    its params or event
\*   pc        where it is
\*   op, arg   the client operation in progress and its arguments
\*   sent      the HTTP requests it issued so far, in order
\*   inflight  requests issued and not yet answered
\*   resp      the server's answer to the operation's own request
\*   ret       the client operation's completion
\*   out       the handler's completion
\*   msgIdx    agent_end's position in event.messages
\*   adds      the client.add calls agent_end made
Invocation(k, p) ==
    [ kind |-> k, params |-> p, pc |-> "start", op |-> "none",
      arg |-> Undefined, sent |-> <<>>, inflight |-> 0, resp |-> "none",
      ret |-> NotYet, out |-> NotYet, msgIdx |-> 0, adds |-> <<>> ]

Open == BagToSet(calls)

Put(r) == calls' = calls (+) SetToBag({r})
Swap(r, r2) == calls' = (calls (-) SetToBag({r})) (+) SetToBag({r2})
Drop(r) == calls' = calls (-) SetToBag({r})

Init ==
    /\ pluginConfig \in PluginConfigs
    /\ config = parse(pluginConfig)
    /\ healthChecked = FALSE
    /\ calls = EmptyBag

----------------------------------------------------------------------------
\* Mem0Client operations, step by step.

\* A faulty variant of clientCall: ensureHealthy entered twice, so that the
\* probe goes out twice.
clientCallProbeTwice(r, o, a, flag) ==
    [ r EXCEPT !.op = o, !.arg = a, !.resp = "none", !.ret = NotYet,
               !.pc = IF flag THEN "ready" ELSE "probe",
               !.sent = IF flag THEN @ ELSE @ \o <<HealthRequest, HealthRequest>>,
               !.inflight = IF flag THEN @ ELSE @ + 2 ]

\* search/add/list/delete up to their first await, with this.healthChecked =
\* flag: ensureHealthy returns at once when the flag is set, and issues GET
\* /health otherwise.
clientCall(r, o, a, flag) ==
    [ r EXCEPT !.op = o, !.arg = a, !.resp = "none", !.ret = NotYet,
               !.pc = IF flag THEN "ready" ELSE "probe",
               !.sent = IF flag THEN @ ELSE Append(@, HealthRequest),
               !.inflight = IF flag THEN @ ELSE @ + 1 ]

\* ensureHealthy ends: the operation goes on to its own request unless
\* ensureHealthy itself threw.
healthDone(r, outcome, body) ==
    IF ensureHealthy(outcome, body).raised
    THEN [r EXCEPT !.pc = "returned", !.ret = Throw]
    ELSE [r EXCEPT !.pc = "ready"]

\* the server answers GET /health
ProbeRespond ==
    /\ \E r \in Open : \E outcome \in Outcomes :
          /\ r.pc = "probe"
          /\ IF outcome = "ok"
             THEN /\ Swap(r, [r EXCEPT !.inflight = @ - 1, !.pc = "probe_json"])
                  /\ UNCHANGED healthChecked
             ELSE /\ Swap(r, healthDone([r EXCEPT !.inflight = @ - 1],
                                        outcome, Undefined))
                  /\ healthChecked' =
                        healthCheckedAfter(healthChecked, outcome, Undefined)
    /\ UNCHANGED <<pluginConfig, config>>

\* await response.json() of the probe
ProbeBody ==
    /\ \E r \in Open : \E body \in HealthBodies :
          /\ r.pc = "probe_json"
          /\ Swap(r, healthDone(r, "ok", body))
          /\ healthChecked' = healthCheckedAfter(healthChecked, "ok", body)
    /\ UNCHANGED <<pluginConfig, config>>

\* the operation's own fetch
SendRequest ==
    /\ \E r \in Open :
          /\ r.pc = "ready"
          /\ Swap(r, [r EXCEPT !.sent = Append(@, request(r.op, r.arg, config)),
                               !.inflight = @ + 1,
                               !.pc = "request"])
    /\ UNCHANGED <<pluginConfig, config, healthChecked>>

\* the server answers the operation's request
RequestRespond ==
    /\ \E r \in Open : \E outcome \in Outcomes :
          /\ r.pc = "request"
          /\ IF outcome = "ok" /\ r.op # "delete"
             THEN Swap(r, [r EXCEPT !.inflight = @ - 1, !.resp = outcome,
                                    !.pc = "req_json"])
             ELSE Swap(r, [r EXCEPT !.inflight = @ - 1, !.resp = outcome,
                                    !.pc = "returned",
                                    !.ret = clientReturn(r.op, outcome, Undefined)])
    /\ UNCHANGED <<pluginConfig, config, healthChecked>>

\* await response.json() of the operation's response
RequestBody ==
    /\ \E r \in Open : \E body \in Bodies(r.kind, r.op) :
          /\ r.pc = "req_json"
          /\ Swap(r, [r EXCEPT !.pc = "returned",
                               !.ret = clientReturn(r.op, "ok", body)])
    /\ UNCHANGED <<pluginConfig, config, healthChecked>>

----------------------------------------------------------------------------
\* Callers of the client's operations.

Content1 == Str(<<"n", "o", "t", "e">>)
Agent7 == Str(<<"a", "g", "e", "n", "t", "-", "7">>)

Args(o) ==
    CASE o = "search" ->
           {[query |-> Str(<<"q">>), limit |-> Undefined]}
      [] o = "add" ->
           {[content |-> Content1, agentId |-> Agent7]}
      [] o = "list" -> {EmptyObj}
      [] o = "delete" -> {[id |-> Str(<<"i", "d", "1">>)]}

\* an operation is called while the earlier ones may still be in progress
Call ==
    /\ BagCardinality(calls) < MaxCalls
    /\ \E o \in ClientOps : \E a \in Args(o) :
          Put(clientCall(Invocation(o, a), o, a, healthChecked))
    /\ UNCHANGED <<pluginConfig, config, healthChecked>>

\* one operation at a time: each call is awaited before the next
CallSeq ==
    /\ \A r \in Open : r.pc = "returned"
    /\ Call

ClientStep ==
    \/ ProbeRespond
    \/ ProbeBody
    \/ SendRequest
    \/ RequestRespond
    \/ RequestBody

Next == Call \/ ClientStep

\* The client called concurrently, constructed from the default configuration
\* (no pluginConfig given).
InitClient == Init /\ pluginConfig = Undefined

Spec == InitClient /\ [][Next]_vars

NextSeq == CallSeq \/ ClientStep

SpecSeq == Init /\ [][NextSeq]_vars

----------------------------------------------------------------------------
\* The tool handlers.

Tools == {"memory_recall", "memory_store", "memory_forget"}

\* { content: [{ type: "text", text }] }
TextResult(text) ==
    Obj([content |-> Arr(<<Obj([type |-> Str(TxtText), text |-> Str(text)])>>)])

\* x.length
Length(j) == IF j.t \in {"array", "string"} THEN Num(Len(j.v)) ELSE Undefined

\* the callback of memories.map in memory_recall throws on this element
recallItemThrows(m) ==
    \/ IsNullish(m)
    \/ Get(m, "score") # Undefined /\ Get(m, "score").t # "number"

\* `${i + 1}. ${m.memory}${score}`
recallItem(m, i) ==
    ToDecimal(i) \o <<".", " ">> \o ToStr(Get(m, "memory"))
        \o (IF Get(m, "score") # Undefined
            THEN TxtRelevance \o toFixed2(Get(m, "score").v) \o <<")">>
            ELSE <<>>)

\* memory_recall.execute after  await client.search(params.query, params.limit)
recallExecute(p, r) ==
    IF r.raised THEN Throw
    ELSE LET memories == r.val IN
         IF Length(memories) = Num(0)
         THEN Return(TextResult(TxtNoRelevant \o ToStr(p.query) \o <<"\"">>))
         ELSE IF memories.t # "array" THEN Throw
         ELSE IF \E i \in DOMAIN memories.v : recallItemThrows(memories.v[i])
         THEN Throw
         ELSE Return(TextResult(
                  TxtFound \o ToStr(Length(memories)) \o TxtRelevantMemories
                  \o join([i \in DOMAIN memories.v |-> recallItem(memories.v[i], i)],
                          <<"\n">>)))

\* an element of an array as Array.prototype.join renders it
JoinStr(j) == IF IsNullish(j) THEN <<>> ELSE ToStr(j)

\* memory_store.execute after  await client.add(params.content, params.agent_id)
storeExecute(p, r) ==
    IF r.raised THEN Throw
    ELSE LET result == r.val IN
         IF ~Truthy(result) \/ ~Truthy(Get(result, "success"))
         THEN Return(TextResult(TxtFailedStore))
         ELSE LET inner == Get(result, "result") IN
              IF IsNullish(inner) THEN Throw
              ELSE LET results == Get(inner, "results") IN
                   IF results.t # "array" THEN Throw
                   ELSE IF \E i \in DOMAIN results.v : IsNullish(results.v[i])
                   THEN Throw
                   ELSE Return(TextResult(
                            TxtStored
                            \o join([i \in DOMAIN results.v |->
                                        JoinStr(Get(results.v[i], "memory"))],
                                    <<",", " ">>)))

\* memory_forget.execute after  await client.delete(params.id)
forgetExecute(p, r) ==
    IF r.raised THEN Throw
    ELSE Return(TextResult(
             IF Truthy(r.val)
             THEN TxtDeleted \o ToStr(p.id)
             ELSE TxtFailedDelete \o ToStr(p.id)))

execute(k, p, r) ==
    CASE k = "memory_recall" -> recallExecute(p, r)
      [] k = "memory_store" -> storeExecute(p, r)
      [] k = "memory_forget" -> forgetExecute(p, r)

ToolParams(k) ==
    CASE k = "memory_recall" ->
           {[query |-> Str(<<"q">>), limit |-> l] : l \in {Undefined, Num(3)}}
      [] k = "memory_store" ->
           {[content |-> Str(TxtRemember), agent_id |-> a] :
               a \in {Undefined, Str(<<>>), Agent7}}
      [] k = "memory_forget" -> {[id |-> Str(<<"i", "d", "1">>)]}

ToolOp(k) ==
    CASE k = "memory_recall" -> "search"
      [] k = "memory_store" -> "add"
      [] k = "memory_forget" -> "delete"

\* the arguments the handler passes to the client
ToolArg(k, p) ==
    CASE k = "memory_recall" -> [query |-> p.query, limit |-> p.limit]
      [] k = "memory_store" -> [content |-> p.content, agentId |-> p.agent_id]
      [] k = "memory_forget" -> [id |-> p.id]

\* The host runs one handler or hook at a time.
HostIdle == calls = EmptyBag

ToolInvoke ==
    /\ HostIdle
    /\ \E k \in Tools : \E p \in ToolParams(k) :
          Put(clientCall(Invocation(k, p), ToolOp(k), ToolArg(k, p),
                         healthChecked))
    /\ UNCHANGED <<pluginConfig, config, healthChecked>>

ToolReturn ==
    /\ \E r \in Open :
          /\ r.pc = "returned"
          /\ r.kind \in Tools
          /\ Swap(r, [r EXCEPT !.out = execute(r.kind, r.params, r.ret),
                               !.pc = "done"])
    /\ UNCHANGED <<pluginConfig, config, healthChecked>>

\* the host takes the handler's result
Release ==
    /\ \E r \in Open : r.pc = "done" /\ Drop(r)
    /\ UNCHANGED <<pluginConfig, config, healthChecked>>

----------------------------------------------------------------------------
\* The before_agent_start hook.

\* `- ${m.memory} [score: ${m.score?.toFixed(2)}]`
recallLine(m) ==
    <<"-", " ">> \o ToStr(Get(m, "memory")) \o TxtScore
        \o (IF IsNullish(Get(m, "score"))
            THEN TxtUndefined
            ELSE toFixed2(Get(m, "score").v))
        \o <<"]">>

prependContext(relevant) ==
    Marker \o <<"\n">> \o RecallHeader \o <<"\n">>
        \o join([i \in DOMAIN relevant |-> recallLine(relevant[i])], <<"\n">>)
        \o <<"\n">> \o CloseTag

\* (m.score || 0) >= config.recallThreshold
isRelevant(m, cfg) == Or(Get(m, "score"), Num(0)).v >= cfg.recallThreshold.v

\* the hook after  await client.search(prompt, config.recallLimit)
beforeAgentStart(r, cfg) ==
    IF r.raised THEN Throw
    ELSE LET memories == r.val IN
         IF memories.t # "array" THEN Throw
         ELSE IF \E i \in DOMAIN memories.v : IsNullish(memories.v[i])
         THEN Throw
         ELSE LET Keep(m) == isRelevant(m, cfg)
                  relevant == SelectSeq(memories.v, Keep)
              IN  IF Len(relevant) = 0
                  THEN Return(Undefined)
                  ELSE Return(Obj([prependContext |->
                                      Str(prependContext(relevant))]))

RecallEvents ==
    { EmptyObj,
      Obj([prompt |-> Str(<<>>)]),
      Obj([prompt |-> Str(<<" ", "\n">>)]),
      Obj([prompt |-> Str(<<"h", "i">>)]) }

\* event.prompt || ""
promptOf(event) == Or(Get(event, "prompt"), Str(<<>>))

\* the hook up to  await client.search(prompt, config.recallLimit), or to its
\* return for a blank prompt
recallStart(r, cfg, flag) ==
    IF trim(promptOf(r.params).v) = <<>>
    THEN [r EXCEPT !.pc = "done", !.out = Return(Undefined)]
    ELSE clientCall(r, "search",
                    [query |-> promptOf(r.params), limit |-> cfg.recallLimit],
                    flag)

RecallStart ==
    /\ config.autoRecall
    /\ HostIdle
    /\ \E event \in RecallEvents :
          Put(recallStart(Invocation("before_agent_start", event), config,
                          healthChecked))
    /\ UNCHANGED <<pluginConfig, config, healthChecked>>

RecallReturn ==
    /\ \E r \in Open :
          /\ r.pc = "returned"
          /\ r.kind = "before_agent_start"
          /\ Swap(r, [r EXCEPT !.out = beforeAgentStart(r.ret, config),
                               !.pc = "done"])
    /\ UNCHANGED <<pluginConfig, config, healthChecked>>

----------------------------------------------------------------------------
\* The agent_end hook.

\* msg.content || ""
textOf(msg) == Or(Get(msg, "content"), Str(<<>>))

\* Faulty variants of captureSkips: without the marker test, and measuring the
\* untrimmed text.
captureSkipsNoMarker(text) == Len(trim(text)) < MinCaptureLen

captureSkipsNoTrim(text) == includes(text, Marker) \/ Len(text) < MinCaptureLen

\* the two  continue  tests of the loop body
captureSkips(text) ==
    includes(text, Marker) \/ Len(trim(text)) < MinCaptureLen

\* the loop body reaches  await client.add(text, event.agentId)
captures(msg) ==
    /\ Get(msg, "role") \in {Str(RoleUser), Str(RoleAssistant)}
    /\ ~captureSkips(textOf(msg).v)

\* event.messages || []
messagesOf(event) == Or(Get(event, "messages"), Arr(<<>>)).v

\* the first message at or after position from that the loop stores; 0: none
nextCaptured(messages, from) ==
    LET S == {i \in from..Len(messages) : captures(messages[i])}
    IN  IF S = {} THEN 0 ELSE CHOOSE i \in S : \A j \in S : i <= j

\* the for loop from position from up to its next await, or to its end
captureLoop(r, from, flag) ==
    LET messages == messagesOf(r.params)
        i == nextCaptured(messages, from)
    IN  IF i = 0
        THEN [r EXCEPT !.pc = "done", !.out = Return(Undefined),
                       !.msgIdx = Len(messages) + 1]
        ELSE clientCall([r EXCEPT !.msgIdx = i,
                                  !.adds = Append(@, [msg |-> i,
                                                      failed |-> FALSE])],
                        "add",
                        [content |-> textOf(messages[i]),
                         agentId |-> Get(r.params, "agentId")],
                        flag)

\* A context block as before_agent_start returns it
RecallBlock ==
    beforeAgentStart(Return(Arr(<<M87>>)), parse(Undefined)).val.v.prependContext

CaptureTexts ==
    { Undefined,
      Str(Rep("a", MinCaptureLen - 1)),
      Str(Rep("a", MinCaptureLen)),
      Str(<<" ">> \o Rep("a", MinCaptureLen - 1)),
      Str(Rep("a", MinCaptureLen) \o Marker),
      RecallBlock }

\* every text as a user and as an assistant message, and two texts in a role
\* the loop passes over
CaptureMessages ==
    {Obj([role |-> r, content |-> t]) :
        r \in {Str(RoleUser), Str(RoleAssistant)}, t \in CaptureTexts}
    \cup {Obj([role |-> Str(RoleSystem), content |-> t]) :
             t \in {Str(Rep("a", MinCaptureLen)), RecallBlock}}

SeqsUpTo(S, n) == UNION {[1..k -> S] : k \in 0..n}

\* events of a named agent with up to MaxMsgs messages, and events without
\* an agent id with at most one message, or with no messages field at all
CaptureEvents ==
    {EmptyObj}
    \cup {Obj([messages |-> Arr(ms)]) : ms \in SeqsUpTo(CaptureMessages, 1)}
    \cup {Obj([messages |-> Arr(ms), agentId |-> Agent7]) :
             ms \in SeqsUpTo(CaptureMessages, MaxMsgs)}

CaptureStart ==
    /\ config.autoCapture
    /\ HostIdle
    /\ \E event \in CaptureEvents :
          Put(captureLoop(Invocation("agent_end", event), 1, healthChecked))
    /\ UNCHANGED <<pluginConfig, config, healthChecked>>

\* the last client.add call of log, marked with how it ended
MarkLast(log, failed) == [log EXCEPT ![Len(log)].failed = failed]

\* client.add resolved: a rejection would leave the hook, a value (null on
\* failure) is dropped and the loop goes on with the next message
CaptureResume ==
    /\ \E r \in Open :
          /\ r.pc = "returned"
          /\ r.kind = "agent_end"
          /\ IF r.ret.raised
             THEN Swap(r, [r EXCEPT !.pc = "done", !.out = Throw,
                                    !.adds = MarkLast(@, TRUE)])
             ELSE Swap(r, captureLoop(
                              [r EXCEPT !.adds = MarkLast(@, r.ret.val = Null)],
                              r.msgIdx + 1, healthChecked))
    /\ UNCHANGED <<pluginConfig, config, healthChecked>>

----------------------------------------------------------------------------
\* The host driving the registered handlers and hooks.

NextPlugin ==
    \/ ToolInvoke
    \/ RecallStart
    \/ CaptureStart
    \/ ClientStep
    \/ ToolReturn
    \/ RecallReturn
    \/ CaptureResume
    \/ Release

SpecPlugin == Init /\ [][NextPlugin]_vars

----------------------------------------------------------------------------
\* Properties.

\* GET /health requests issued by invocation r, and its other requests
nProbe(r) == Cardinality({i \in DOMAIN r.sent : r.sent[i].path = "/health"})
nReq(r) == Len(r.sent) - nProbe(r)

\* the invocations there are, in progress or ended
nCalls == BagCardinality(calls)

RECURSIVE SumProbes(_)
SumProbes(S) ==
    IF S = {} THEN 0
    ELSE LET r == CHOOSE x \in S : TRUE
         IN  nProbe(r) * CopiesIn(r, calls) + SumProbes(S \ {r})
TotalProbes == SumProbes(Open)

\* the benign result of a failed operation
EmptyResult(o) ==
    CASE o \in {"search", "list"} -> Arr(<<>>)
      [] o = "add" -> Null
      [] o = "delete" -> Bool(FALSE)

\* C1 (as claimed): over any sequence of client operations on one client,
\* GET /health is issued at most once in total, whatever the probe's outcome.
C1_ProbeAtMostOnce == TotalProbes <= 1

\* C2: a client operation that has returned did not raise, and when its
\* request met a transport error or a non-2xx status it returned the empty
\* list (search, list), null (add) or false (delete).
C2_FailuresNormalized ==
    \A r \in Open :
        (r.kind \in ClientOps /\ r.pc = "returned")
        => /\ ~r.ret.raised
           /\ r.resp # "ok" => r.ret.val = EmptyResult(r.op)

C2_Witness ==
    \E r \in Open :
        /\ r.pc = "returned" /\ r.op = "delete" /\ r.resp = "status"
        /\ r.ret = Return(Bool(FALSE))
        /\ nProbe(r) = 1 /\ ~healthChecked

\* C9: a client operation issues its own request only after its health step
\* has ended, exactly once whatever the probe's outcome, never again, and it
\* never has two requests outstanding.
C9_HealthThenOneRequest ==
    \A r \in Open :
        r.kind \in ClientOps
        => /\ r.inflight <= 1
           /\ r.pc \in {"probe", "probe_json", "ready"} => nReq(r) = 0
           /\ r.pc \in {"probe", "probe_json"} => nProbe(r) = 1
           /\ r.pc \in {"request", "req_json", "returned"}
              => /\ nReq(r) = 1
                 /\ r.sent[Len(r.sent)].path # "/health"
           /\ r.pc \in {"probe_json", "ready", "req_json", "returned"}
              => r.inflight = 0

C9_Witness ==
    \E r \in Open :
        /\ r.pc = "returned" /\ r.op = "search" /\ r.resp = "ok"
        /\ nProbe(r) = 1 /\ nReq(r) = 1 /\ ~healthChecked

ConfiguredThreshold ==
    LET t == Get(Or(pluginConfig, EmptyObj), "recallThreshold")
    IN  IF t = Undefined THEN DefaultRecallThreshold ELSE t.v

IsRecordList(j) ==
    j.t = "array" /\ \A i \in DOMAIN j.v : j.v[i].t = "object"

Qualifying(memories) ==
    LET Keep(m) ==
            Get(m, "score") # Undefined /\ Get(m, "score").v >= ConfiguredThreshold
    IN  SelectSeq(memories.v, Keep)

\* C3 (as claimed): with a non-blank prompt the hook returns a prependContext
\* block iff some search result has score >= the configured threshold, and
\* the block then holds one line per qualifying result, in the server's
\* order; a blank prompt or no qualifying result yields no context change.
C3_InjectIffAboveThreshold ==
    \A r \in Open :
        (r.kind = "before_agent_start" /\ r.pc = "done")
        => IF trim(promptOf(r.params).v) = <<>>
           THEN r.out = Return(Undefined) /\ r.sent = <<>>
           ELSE (~r.ret.raised /\ IsRecordList(r.ret.val))
                => r.out =
                     IF Qualifying(r.ret.val) = <<>>
                     THEN Return(Undefined)
                     ELSE Return(Obj([prependContext |->
                              Str(prependContext(Qualifying(r.ret.val)))]))

\* client.add calls agent_end made for message i of its event
Stores(r, i) == Cardinality({k \in DOMAIN r.adds : r.adds[k].msg = i})

\* a user/assistant message without the recall marker
IsCandidate(msg) ==
    /\ Get(msg, "role") \in {Str(RoleUser), Str(RoleAssistant)}
    /\ ~includes(textOf(msg).v, Marker)

C5_MarkerNeverStored ==
    \A r \in Open :
        r.kind = "agent_end"
        => /\ \A k \in DOMAIN r.adds :
                 ~includes(textOf(messagesOf(r.params)[r.adds[k].msg]).v, Marker)
           /\ \A k \in DOMAIN r.sent :
                 r.sent[k].method = "POST"
                 => ~includes(Get(r.sent[k].body, "content").v, Marker)
           /\ \A i \in DOMAIN messagesOf(r.params) :
                 textOf(messagesOf(r.params)[i]) = RecallBlock
                 => Stores(r, i) = 0

C5_Witness ==
    \E r \in Open :
        /\ r.kind = "agent_end" /\ r.pc = "done"
        /\ \E i, j \in DOMAIN messagesOf(r.params) :
              /\ Get(messagesOf(r.params)[i], "role") = Str(RoleUser)
              /\ textOf(messagesOf(r.params)[i]) = RecallBlock
              /\ Len(trim(RecallBlock.v)) >= MinCaptureLen
              /\ Stores(r, i) = 0
              /\ i < j
              /\ Stores(r, j) = 1

\* the positions of the messages that capture is to store, in order
ToStore(messages) ==
    LET Keep(i) ==
            /\ IsCandidate(messages[i])
            /\ Len(trim(textOf(messages[i]).v)) >= MinCaptureLen
    IN  SelectSeq([i \in 1..Len(messages) |-> i], Keep)

nPost(r) == Cardinality({k \in DOMAIN r.sent : r.sent[k].method = "POST"})

\* C6: agent_end attempts one store per qualifying message, in message order
\* and one request at a time; a failed attempt does not prevent the attempts
\* for the later messages, and the hook ends without raising.
C6_EachStoredIndependently ==
    \A r \in Open :
        r.kind = "agent_end"
        => LET q == ToStore(messagesOf(r.params)) IN
           /\ Len(r.adds) <= Len(q)
           /\ \A k \in DOMAIN r.adds : r.adds[k].msg = q[k]
           /\ r.inflight <= 1
           /\ nPost(r) \in {Len(r.adds) - 1, Len(r.adds)}
           /\ r.pc = "done"
              => /\ ~r.out.raised
                 /\ Len(r.adds) = Len(q)
                 /\ nPost(r) = Len(q)

C6_Witness ==
    \E r \in Open :
        /\ r.kind = "agent_end" /\ r.pc = "done"
        /\ Len(r.adds) = 2
        /\ r.adds[1].failed
        /\ nPost(r) = 2

IsTextResult(j) ==
    /\ j.t = "object"
    /\ DOMAIN j.v = {"content"}
    /\ j.v.content.t = "array"
    /\ Len(j.v.content.v) = 1
    /\ j.v.content.v[1].t = "object"
    /\ Get(j.v.content.v[1], "type") = Str(TxtText)
    /\ Get(j.v.content.v[1], "text").t = "string"

\* C7 (as claimed): the tool handlers never raise to the host; whatever the
\* server does, a malformed 2xx body included, they return a text result.
C7_ToolsNeverRaise ==
    \A r \in Open :
        (r.kind \in Tools /\ r.pc = "done")
        => ~r.out.raised /\ IsTextResult(r.out.val)

StartsWith(s, prefix) ==
    Len(s) >= Len(prefix) /\ SubSeq(s, 1, Len(prefix)) = prefix

\* C8 (as claimed): memory_store issues exactly one POST /memories whose
\* user_id is the configured user id, with an agent_id metadata key exactly
\* when an agent id (a non-empty string) was supplied; its output is 'Stored
\* in memory: ...' exactly when the request succeeded and the server
\* reported success, and 'Failed to store memory.' otherwise.
C8_StoreOnePost ==
    \A r \in Open :
        (r.kind = "memory_store" /\ r.pc = "done")
        => LET posts == {k \in DOMAIN r.sent :
                            /\ r.sent[k].method = "POST"
                            /\ r.sent[k].path = "/memories"}
               supplied == /\ r.params.agent_id.t = "string"
                           /\ r.params.agent_id.v # <<>>
               succeeded == /\ r.resp = "ok"
                            /\ ~r.ret.raised
                            /\ Get(r.ret.val, "success") = Bool(TRUE)
           IN  /\ Cardinality(posts) = 1
               /\ \A k \in posts :
                     /\ Get(r.sent[k].body, "content") = r.params.content
                     /\ Get(r.sent[k].body, "user_id") = config.userId
                     /\ supplied <=> "metadata" \in DOMAIN r.sent[k].body.v
                     /\ supplied =>
                          Get(r.sent[k].body, "metadata")
                              = Obj([agent_id |-> r.params.agent_id])
               /\ succeeded
                  => /\ ~r.out.raised
                     /\ IsTextResult(r.out.val)
                     /\ StartsWith(r.out.val.v.content.v[1].v.text.v, TxtStored)
               /\ ~succeeded => r.out = Return(TextResult(TxtFailedStore))

====
